---- MODULE Spec2Model ----
(***************************************************************************)
(* Zero-of-Functions solver: the six root-finding loops of ZOF_CLI.py and  *)
(* their duplicates inside run_method of app.py.                           *)
(*                                                                         *)
(* Python floats are IEEE-754 binary floating point numbers.  The model    *)
(* keeps that arithmetic (round-to-nearest-even after every operation,     *)
(* overflow to infinity, gradual underflow, NaN, ZeroDivisionError on a    *)
(* zero divisor) in a format of Prec significand bits instead of 53.       *)
(* A finite float is the integer number of units 2^-FracBits it holds.     *)
(***************************************************************************)
EXTENDS Integers, Sequences, FiniteSets

\* ------------------------------------------------------------------------
\* The floating point format
\* ------------------------------------------------------------------------

\* Significand bits of the format (53 for a Python float).
Prec == 3
\* Number of binades above the lowest one (the exponent range).
MaxShift == 3
\* Largest max_iter a caller passes.
MaxIterBound == 4

FracBits == Prec
Pow2(n) == 2 ^ n

\* Largest finite float, in units.
MaxFin == (Pow2(Prec) - 1) * Pow2(MaxShift)
PInf == MaxFin + 1
NInf == 0 - PInf
NaN == MaxFin + 2
\* Python's None (the absent residual of a fixed-point record, the unset root).
None == MaxFin + 3
\* A local variable that no statement has assigned yet.
Unbound == MaxFin + 4

Zero == 0
One == Pow2(FracBits)
Two == 2 * One

IsFinite(x) == x >= 0 - MaxFin /\ x <= MaxFin
IsNaN(x) == x = NaN
Sign(n) == IF n < 0 THEN 0 - 1 ELSE IF n > 0 THEN 1 ELSE 0
Mag(n) == IF n < 0 THEN 0 - n ELSE n

\* A finite number of units is a float when it has at most Prec significant bits.
Representable(k) ==
  /\ IsFinite(k)
  /\ \E j \in 0..MaxShift : Mag(k) % Pow2(j) = 0 /\ Mag(k) \div Pow2(j) < Pow2(Prec)

\* The float nearest to n/d units (d > 0), ties to the even significand;
\* a result beyond the largest finite float is an infinity.
\* Clamp: the rounded magnitude k with its sign, or the infinity of that sign.
Clamp(sg, k) == IF k > MaxFin THEN sg * PInf ELSE sg * k

\* m quanta p and a remainder r out of q: round half to even.
RoundRem(sg, m, r, q, p) ==
  Clamp(sg, (IF 2 * r > q \/ (2 * r = q /\ m % 2 = 1) THEN m + 1 ELSE m) * p)

\* The quantum is 2^j units.
RoundAt(sg, mag, d, j) ==
  RoundRem(sg, mag \div (d * Pow2(j)), mag % (d * Pow2(j)), d * Pow2(j), Pow2(j))

\* The binade of mag/d: the least j with mag/d < 2^(Prec+j).
Shift(mag, d) == Cardinality({j \in 0..MaxShift : mag >= d * Pow2(Prec + j)})

RoundMag(sg, mag, d) ==
  IF mag >= d * Pow2(Prec + MaxShift) THEN sg * PInf
  ELSE RoundAt(sg, mag, d, Shift(mag, d))

RoundQ(n, d) == RoundMag(Sign(n), Mag(n), d)

FNeg(x) == IF x = NaN THEN NaN ELSE 0 - x

FAbs(x) == IF x = NaN THEN NaN ELSE Mag(x)

FAdd(x, y) ==
  IF x = NaN \/ y = NaN THEN NaN
  ELSE IF x = PInf \/ x = NInf
       THEN (IF y = 0 - x THEN NaN ELSE x)
  ELSE IF y = PInf \/ y = NInf THEN y
  ELSE RoundQ(x + y, 1)

FSub(x, y) == FAdd(x, FNeg(y))

FMul(x, y) ==
  IF x = NaN \/ y = NaN THEN NaN
  ELSE IF ~IsFinite(x) \/ ~IsFinite(y)
       THEN (IF x = 0 \/ y = 0 THEN NaN ELSE Sign(x) * Sign(y) * PInf)
  ELSE RoundQ(x * y, Pow2(FracBits))

\* x / y for y # 0 (Python raises ZeroDivisionError before dividing by zero).
FDiv(x, y) ==
  IF x = NaN \/ y = NaN THEN NaN
  ELSE IF ~IsFinite(x)
       THEN (IF ~IsFinite(y) THEN NaN ELSE Sign(x) * Sign(y) * PInf)
  ELSE IF ~IsFinite(y) THEN 0
  ELSE RoundQ(Sign(y) * x * Pow2(FracBits), Mag(y))

\* Python's comparisons: every ordered comparison with a NaN is False.
FLt(x, y) == x # NaN /\ y # NaN /\ x < y
FGt(x, y) == FLt(y, x)
FEq(x, y) == x # NaN /\ y # NaN /\ x = y
FNe(x, y) == ~FEq(x, y)

\* ------------------------------------------------------------------------
\* The caller's inputs and the two copies of the solver
\* ------------------------------------------------------------------------

VARIABLES
  method,    \* which of the six methods is called
  fexpr,     \* the expression compiled by parse_function (f, or g for fixed point)
  p1,        \* a, or x0
  p2,        \* b, or x1, or delta (None when the method takes one seed)
  tol,       \* tolerance
  max_iter,  \* iteration cap
  lib,       \* locals of the running ZOF_CLI.py function
  web        \* locals of the running app.py run_method

vars == <<method, fexpr, p1, p2, tol, max_iter, lib, web>>

\* The smallest positive float: one unit, 2^-FracBits.
MinPos == One \div Pow2(FracBits)
Four == 2 * Two

Methods ==
  {"bisection", "regula_falsi", "secant", "newton_raphson",
   "fixed_point_iteration", "modified_secant"}
TwoSeed == {"bisection", "regula_falsi", "secant"}
Exprs == {"x", "x-1", "x*x-2", "x*x-1", "2*x", "x/2+1"}
Seeds == {NInf, 0 - Two, 0 - One, Zero, MinPos, One, Two, Four, PInf, NaN}
Tols == {Zero, MinPos, One}
Deltas == {Zero, MinPos, One}

\* parse_function: the callable evaluates the expression in float arithmetic.
\* All expressions of Exprs are total (no operation of theirs raises).
f(expr, x) ==
  CASE expr = "x" -> x
    [] expr = "x-1" -> FSub(x, One)
    [] expr = "x*x-2" -> FSub(FMul(x, x), Two)
    [] expr = "x*x-1" -> FSub(FMul(x, x), One)
    [] expr = "2*x" -> FMul(Two, x)
    [] expr = "x/2+1" -> FAdd(FDiv(x, Two), One)

\* The step of the central difference (1e-6 in the source, scaled to the format).
h == One \div 4

numerical_derivative(expr, x) ==
  FDiv(FSub(f(expr, FAdd(x, h)), f(expr, FSub(x, h))), FMul(Two, h))

Row(i, x, fx, err) == [i |-> i, x |-> x, fx |-> fx, err |-> err]

Locals ==
  [pc |-> "call", exc |-> "", i |-> 0,
   a |-> Unbound, b |-> Unbound, fa |-> Unbound, fb |-> Unbound,
   c |-> Unbound, x0 |-> Unbound, x1 |-> Unbound, x2 |-> Unbound,
   x |-> Unbound, delta |-> Unbound, err |-> Unbound, root |-> Unbound,
   rows |-> <<>>, it |-> Unbound]

Raise(s, e) == [s EXCEPT !.pc = "raised", !.exc = e]

\* Mutant of Return: the pass count is reported from zero.
Return_countFromZero(s, est, err, it) ==
  IF est = Unbound \/ err = Unbound THEN Raise(s, "UnboundLocalError")
  ELSE [s EXCEPT !.pc = "returned", !.root = est, !.err = err, !.it = it - 1]

\* return est, err, it, rows: reading an unassigned local raises UnboundLocalError.
Return(s, est, err, it) ==
  IF est = Unbound \/ err = Unbound THEN Raise(s, "UnboundLocalError")
  ELSE [s EXCEPT !.pc = "returned", !.root = est, !.err = err, !.it = it]

\* Mutant of StopTest: the residual is never consulted.
StopTest_errOnly(fx, err) == FLt(err, tol)

\* abs(fx)<tol or err<tol
StopTest(fx, err) == FLt(FAbs(fx), tol) \/ FLt(err, tol)

\* ---- ZOF_CLI.py: bisection
bisection_check(s, fa, fb) ==
  IF FGt(FMul(fa, fb), Zero) THEN Raise(s, "ValueError")
  ELSE [s EXCEPT !.pc = "loop", !.a = p1, !.b = p2, !.fa = fa, !.fb = fb]

bisection_call(s) == bisection_check(s, f(fexpr, p1), f(fexpr, p2))

\* Mutant of bisection_step: the loop stops on the residual only.
bisection_step_residualOnly(s, i, c, fc, err) ==
  LET t == [s EXCEPT !.i = i, !.c = c, !.err = err,
                     !.rows = Append(s.rows, Row(i, c, fc, err))]
  IN IF FLt(FAbs(fc), tol) THEN Return(t, c, err, i)
     ELSE IF FLt(FMul(s.fa, fc), Zero) THEN [t EXCEPT !.b = c, !.fb = fc]
     ELSE [t EXCEPT !.a = c, !.fa = fc]

\* rows.append; the stopping test; the narrowing of the bracket
bisection_step(s, i, c, fc, err) ==
  LET t == [s EXCEPT !.i = i, !.c = c, !.err = err,
                     !.rows = Append(s.rows, Row(i, c, fc, err))]
  IN IF StopTest(fc, err) THEN Return(t, c, err, i)
     ELSE IF FLt(FMul(s.fa, fc), Zero) THEN [t EXCEPT !.b = c, !.fb = fc]
     ELSE [t EXCEPT !.a = c, !.fa = fc]

\* Mutant of bisection_eval: the error is the whole width of the bracket.
bisection_eval_fullWidth(s, c) ==
  bisection_step(s, s.i + 1, c, f(fexpr, c), FAbs(FSub(s.b, s.a)))

\* fc=f(c); err=abs(b-a)/2
bisection_eval(s, c) ==
  bisection_step(s, s.i + 1, c, f(fexpr, c), FDiv(FAbs(FSub(s.b, s.a)), Two))

\* c=(a+b)/2
bisection_pass(s) == bisection_eval(s, FDiv(FAdd(s.a, s.b), Two))

bisection(s) ==
  IF s.pc = "call" THEN bisection_call(s)
  ELSE IF s.i < max_iter THEN bisection_pass(s)
  ELSE Return(s, s.c, s.err, max_iter)

\* ---- ZOF_CLI.py: regula_falsi
regula_falsi_check(s, fa, fb) ==
  IF FGt(FMul(fa, fb), Zero) THEN Raise(s, "ValueError")
  ELSE [s EXCEPT !.pc = "loop", !.a = p1, !.b = p2, !.fa = fa, !.fb = fb,
                 !.c = p1]

regula_falsi_call(s) == regula_falsi_check(s, f(fexpr, p1), f(fexpr, p2))

regula_falsi_step(s, i, c, fc, err) ==
  LET t == [s EXCEPT !.i = i, !.c = c, !.err = err,
                     !.rows = Append(s.rows, Row(i, c, fc, err))]
  IN IF StopTest(fc, err) THEN Return(t, c, err, i)
     ELSE IF FLt(FMul(s.fa, fc), Zero) THEN [t EXCEPT !.b = c, !.fb = fc]
     ELSE [t EXCEPT !.a = c, !.fa = fc]

\* fc=f(c); err=abs(c-c_prev) if i>1 else float("inf")   (s.c is c_prev)
regula_falsi_eval(s, c) ==
  regula_falsi_step(s, s.i + 1, c, f(fexpr, c),
                    IF s.i + 1 > 1 THEN FAbs(FSub(c, s.c)) ELSE PInf)

\* c=(a*fb-b*fa)/(fb-fa): Python raises ZeroDivisionError on a zero divisor
regula_falsi_pass(s) ==
  IF FSub(s.fb, s.fa) = Zero THEN Raise(s, "ZeroDivisionError")
  ELSE regula_falsi_eval(s, FDiv(FSub(FMul(s.a, s.fb), FMul(s.b, s.fa)),
                                 FSub(s.fb, s.fa)))

regula_falsi(s) ==
  IF s.pc = "call" THEN regula_falsi_call(s)
  ELSE IF s.i < max_iter THEN regula_falsi_pass(s)
  ELSE Return(s, s.c, s.err, max_iter)

\* ---- ZOF_CLI.py: secant
secant_call(s) == [s EXCEPT !.pc = "loop", !.x0 = p1, !.x1 = p2]

secant_step(s, i, x2, fx2, err) ==
  LET t == [s EXCEPT !.i = i, !.x2 = x2, !.err = err,
                     !.rows = Append(s.rows, Row(i, x2, fx2, err))]
  IN IF StopTest(fx2, err) THEN Return(t, x2, err, i)
     ELSE [t EXCEPT !.x0 = s.x1, !.x1 = x2]

\* err=abs(x2-x1)
secant_eval(s, x2) ==
  secant_step(s, s.i + 1, x2, f(fexpr, x2), FAbs(FSub(x2, s.x1)))

\* Mutant of secant_den: the guard compares the iterates, not their values.
secant_den_comparesIterates(s, f0, f1) ==
  IF FEq(s.x1, s.x0) THEN Raise(s, "ZeroDenominator")
  ELSE secant_eval(s, FSub(s.x1, FDiv(FMul(f1, FSub(s.x1, s.x0)), FSub(f1, f0))))

\* if f1-f0==0: raise; x2=x1 - f1*(x1-x0)/(f1-f0)
secant_den(s, f0, f1) ==
  IF FEq(FSub(f1, f0), Zero) THEN Raise(s, "ZeroDenominator")
  ELSE secant_eval(s, FSub(s.x1, FDiv(FMul(f1, FSub(s.x1, s.x0)), FSub(f1, f0))))

\* f0,f1=f(x0),f(x1)
secant_pass(s) == secant_den(s, f(fexpr, s.x0), f(fexpr, s.x1))

secant(s) ==
  IF s.pc = "call" THEN secant_call(s)
  ELSE IF s.i < max_iter THEN secant_pass(s)
  ELSE Return(s, s.x2, s.err, max_iter)

\* ---- ZOF_CLI.py: newton_raphson
newton_raphson_call(s) == [s EXCEPT !.pc = "loop", !.x = p1]

newton_raphson_step(s, i, x_new, fx_new, err) ==
  LET t == [s EXCEPT !.i = i, !.err = err,
                     !.rows = Append(s.rows, Row(i, x_new, fx_new, err))]
  IN IF StopTest(fx_new, err) THEN Return(t, x_new, err, i)
     ELSE [t EXCEPT !.x = x_new]

\* err=abs(x_new-x)
newton_raphson_eval(s, x_new) ==
  newton_raphson_step(s, s.i + 1, x_new, f(fexpr, x_new), FAbs(FSub(x_new, s.x)))

\* if dfx==0: raise; x_new=x-fx/dfx
newton_raphson_dfx(s, fx, dfx) ==
  IF FEq(dfx, Zero) THEN Raise(s, "ZeroDerivative")
  ELSE newton_raphson_eval(s, FSub(s.x, FDiv(fx, dfx)))

\* fx=f(x); dfx=numerical_derivative(f,x)
newton_raphson_pass(s) ==
  newton_raphson_dfx(s, f(fexpr, s.x), numerical_derivative(fexpr, s.x))

newton_raphson(s) ==
  IF s.pc = "call" THEN newton_raphson_call(s)
  ELSE IF s.i < max_iter THEN newton_raphson_pass(s)
  ELSE Return(s, s.x, s.err, max_iter)

\* ---- ZOF_CLI.py: fixed_point_iteration (fexpr is g)
fixed_point_iteration_call(s) == [s EXCEPT !.pc = "loop", !.x = p1]

\* Mutant of fixed_point_iteration_step: x=x_new is forgotten.
fixed_point_iteration_step_stale(s, i, x_new, err) ==
  LET t == [s EXCEPT !.i = i, !.err = err,
                     !.rows = Append(s.rows, Row(i, x_new, None, err))]
  IN IF FLt(err, tol) THEN Return(t, x_new, err, i)
     ELSE t

fixed_point_iteration_step(s, i, x_new, err) ==
  LET t == [s EXCEPT !.i = i, !.err = err,
                     !.rows = Append(s.rows, Row(i, x_new, None, err))]
  IN IF FLt(err, tol) THEN Return(t, x_new, err, i)
     ELSE [t EXCEPT !.x = x_new]

\* err=abs(x_new-x)
fixed_point_iteration_eval(s, x_new) ==
  fixed_point_iteration_step(s, s.i + 1, x_new, FAbs(FSub(x_new, s.x)))

\* x_new=g(x)
fixed_point_iteration_pass(s) == fixed_point_iteration_eval(s, f(fexpr, s.x))

fixed_point_iteration(s) ==
  IF s.pc = "call" THEN fixed_point_iteration_call(s)
  ELSE IF s.i < max_iter THEN fixed_point_iteration_pass(s)
  ELSE Return(s, s.x, s.err, max_iter)

\* ---- ZOF_CLI.py: modified_secant
modified_secant_call(s) == [s EXCEPT !.pc = "loop", !.x = p1, !.delta = p2]

modified_secant_step(s, i, x_new, fx_new, err) ==
  LET t == [s EXCEPT !.i = i, !.err = err,
                     !.rows = Append(s.rows, Row(i, x_new, fx_new, err))]
  IN IF StopTest(fx_new, err) THEN Return(t, x_new, err, i)
     ELSE [t EXCEPT !.x = x_new]

\* err=abs(x_new-x)
modified_secant_eval(s, x_new) ==
  modified_secant_step(s, s.i + 1, x_new, f(fexpr, x_new), FAbs(FSub(x_new, s.x)))

\* if dfx_approx==0: raise; x_new=x-fx/dfx_approx
modified_secant_dfx(s, fx, dfx_approx) ==
  IF FEq(dfx_approx, Zero) THEN Raise(s, "ZeroDerivativeApproximation")
  ELSE modified_secant_eval(s, FSub(s.x, FDiv(fx, dfx_approx)))

\* (f(x+delta*x)-fx)/(delta*x): Python raises ZeroDivisionError on a zero divisor
modified_secant_forward(s, fx, den) ==
  IF den = Zero THEN Raise(s, "ZeroDivisionError")
  ELSE modified_secant_dfx(s, fx,
         FDiv(FSub(f(fexpr, FAdd(s.x, FMul(s.delta, s.x))), fx), den))

\* dfx_approx=(...)/(delta*x) if x!=0 else numerical_derivative(f,x)
modified_secant_pass(s) ==
  IF FNe(s.x, Zero)
  THEN modified_secant_forward(s, f(fexpr, s.x), FMul(s.delta, s.x))
  ELSE modified_secant_dfx(s, f(fexpr, s.x), numerical_derivative(fexpr, s.x))

modified_secant(s) ==
  IF s.pc = "call" THEN modified_secant_call(s)
  ELSE IF s.i < max_iter THEN modified_secant_pass(s)
  ELSE Return(s, s.x, s.err, max_iter)

\* ------------------------------------------------------------------------
\* app.py: run_method, one branch per method
\* ------------------------------------------------------------------------

web_numerical_derivative(expr, x) ==
  FDiv(FSub(f(expr, FAdd(x, h)), f(expr, FSub(x, h))), FMul(Two, h))

\* except Exception as e: return {"error": ...}
WebError(s, e) == [s EXCEPT !.pc = "error", !.exc = e]

\* root=...; break, then return {"rows":rows,"root":root}
WebBreak(s, est) == [s EXCEPT !.pc = "returned", !.root = est]

\* The loop ran out: return {"rows":rows,"root":root}
WebFallThrough(s) == [s EXCEPT !.pc = "returned"]

\* ---- app.py: method=="bisection"
web_bisection_check(s, fa, fb) ==
  IF FGt(FMul(fa, fb), Zero) THEN WebError(s, "ValueError")
  ELSE [s EXCEPT !.pc = "loop", !.root = None, !.a = p1, !.b = p2,
                 !.fa = fa, !.fb = fb]

web_bisection_step(s, i, c, fc, err) ==
  LET t == [s EXCEPT !.i = i, !.c = c, !.err = err,
                     !.rows = Append(s.rows, Row(i, c, fc, err))]
  IN IF FLt(FAbs(fc), tol) \/ FLt(err, tol) THEN WebBreak(t, c)
     ELSE IF FLt(FMul(s.fa, fc), Zero) THEN [t EXCEPT !.b = c, !.fb = fc]
     ELSE [t EXCEPT !.a = c, !.fa = fc]

web_bisection_eval(s, c) ==
  web_bisection_step(s, s.i + 1, c, f(fexpr, c), FDiv(FAbs(FSub(s.b, s.a)), Two))

web_bisection(s) ==
  IF s.pc = "call" THEN web_bisection_check(s, f(fexpr, p1), f(fexpr, p2))
  ELSE IF s.i < max_iter THEN web_bisection_eval(s, FDiv(FAdd(s.a, s.b), Two))
  ELSE WebFallThrough(s)

\* ---- app.py: method=="regula"
web_regula_check(s, fa, fb) ==
  IF FGt(FMul(fa, fb), Zero) THEN WebError(s, "ValueError")
  ELSE [s EXCEPT !.pc = "loop", !.root = None, !.a = p1, !.b = p2,
                 !.fa = fa, !.fb = fb, !.c = p1]

web_regula_step(s, i, c, fc, err) ==
  LET t == [s EXCEPT !.i = i, !.c = c, !.err = err,
                     !.rows = Append(s.rows, Row(i, c, fc, err))]
  IN IF FLt(FAbs(fc), tol) \/ FLt(err, tol) THEN WebBreak(t, c)
     ELSE IF FLt(FMul(s.fa, fc), Zero) THEN [t EXCEPT !.b = c, !.fb = fc]
     ELSE [t EXCEPT !.a = c, !.fa = fc]

web_regula_eval(s, c) ==
  web_regula_step(s, s.i + 1, c, f(fexpr, c),
                  IF s.i + 1 > 1 THEN FAbs(FSub(c, s.c)) ELSE PInf)

web_regula_pass(s) ==
  IF FSub(s.fb, s.fa) = Zero THEN WebError(s, "ZeroDivisionError")
  ELSE web_regula_eval(s, FDiv(FSub(FMul(s.a, s.fb), FMul(s.b, s.fa)),
                               FSub(s.fb, s.fa)))

web_regula(s) ==
  IF s.pc = "call" THEN web_regula_check(s, f(fexpr, p1), f(fexpr, p2))
  ELSE IF s.i < max_iter THEN web_regula_pass(s)
  ELSE WebFallThrough(s)

\* ---- app.py: method=="secant"
web_secant_step(s, i, x2, fx2, err) ==
  LET t == [s EXCEPT !.i = i, !.x2 = x2, !.err = err,
                     !.rows = Append(s.rows, Row(i, x2, fx2, err))]
  IN IF FLt(FAbs(fx2), tol) \/ FLt(err, tol) THEN WebBreak(t, x2)
     ELSE [t EXCEPT !.x0 = s.x1, !.x1 = x2]

web_secant_eval(s, x2) ==
  web_secant_step(s, s.i + 1, x2, f(fexpr, x2), FAbs(FSub(x2, s.x1)))

web_secant_den(s, f0, f1) ==
  IF FEq(FSub(f1, f0), Zero) THEN WebError(s, "ZeroDenominator")
  ELSE web_secant_eval(s, FSub(s.x1, FDiv(FMul(f1, FSub(s.x1, s.x0)),
                                          FSub(f1, f0))))

web_secant(s) ==
  IF s.pc = "call"
  THEN [s EXCEPT !.pc = "loop", !.root = None, !.x0 = p1, !.x1 = p2]
  ELSE IF s.i < max_iter THEN web_secant_den(s, f(fexpr, s.x0), f(fexpr, s.x1))
  ELSE WebFallThrough(s)

\* ---- app.py: method=="newton"
web_newton_step(s, i, x_new, fx_new, err) ==
  LET t == [s EXCEPT !.i = i, !.err = err,
                     !.rows = Append(s.rows, Row(i, x_new, fx_new, err))]
  IN IF FLt(FAbs(fx_new), tol) \/ FLt(err, tol) THEN WebBreak(t, x_new)
     ELSE [t EXCEPT !.x = x_new]

web_newton_eval(s, x_new) ==
  web_newton_step(s, s.i + 1, x_new, f(fexpr, x_new), FAbs(FSub(x_new, s.x)))

web_newton_dfx(s, fx, dfx) ==
  IF FEq(dfx, Zero) THEN WebError(s, "ZeroDerivative")
  ELSE web_newton_eval(s, FSub(s.x, FDiv(fx, dfx)))

web_newton(s) ==
  IF s.pc = "call" THEN [s EXCEPT !.pc = "loop", !.root = None, !.x = p1]
  ELSE IF s.i < max_iter
  THEN web_newton_dfx(s, f(fexpr, s.x), web_numerical_derivative(fexpr, s.x))
  ELSE WebFallThrough(s)

\* ---- app.py: method=="fixed" (fexpr is params["g"])
web_fixed_step(s, i, x_new, err) ==
  LET t == [s EXCEPT !.i = i, !.err = err,
                     !.rows = Append(s.rows, Row(i, x_new, None, err))]
  IN IF FLt(err, tol) THEN WebBreak(t, x_new)
     ELSE [t EXCEPT !.x = x_new]

web_fixed_eval(s, x_new) ==
  web_fixed_step(s, s.i + 1, x_new, FAbs(FSub(x_new, s.x)))

web_fixed(s) ==
  IF s.pc = "call" THEN [s EXCEPT !.pc = "loop", !.root = None, !.x = p1]
  ELSE IF s.i < max_iter THEN web_fixed_eval(s, f(fexpr, s.x))
  ELSE WebFallThrough(s)

\* ---- app.py: method=="modified"
web_modified_step(s, i, x_new, fx_new, err) ==
  LET t == [s EXCEPT !.i = i, !.err = err,
                     !.rows = Append(s.rows, Row(i, x_new, fx_new, err))]
  IN IF FLt(FAbs(fx_new), tol) \/ FLt(err, tol) THEN WebBreak(t, x_new)
     ELSE [t EXCEPT !.x = x_new]

web_modified_eval(s, x_new) ==
  web_modified_step(s, s.i + 1, x_new, f(fexpr, x_new), FAbs(FSub(x_new, s.x)))

web_modified_dfx(s, fx, dfx_approx) ==
  IF FEq(dfx_approx, Zero) THEN WebError(s, "ZeroDerivativeApproximation")
  ELSE web_modified_eval(s, FSub(s.x, FDiv(fx, dfx_approx)))

web_modified_forward(s, fx, den) ==
  IF den = Zero THEN WebError(s, "ZeroDivisionError")
  ELSE web_modified_dfx(s, fx,
         FDiv(FSub(f(fexpr, FAdd(s.x, FMul(s.delta, s.x))), fx), den))

web_modified(s) ==
  IF s.pc = "call"
  THEN [s EXCEPT !.pc = "loop", !.root = None, !.x = p1, !.delta = p2]
  ELSE IF s.i < max_iter
  THEN (IF FNe(s.x, Zero)
        THEN web_modified_forward(s, f(fexpr, s.x), FMul(s.delta, s.x))
        ELSE web_modified_dfx(s, f(fexpr, s.x), web_numerical_derivative(fexpr, s.x)))
  ELSE WebFallThrough(s)

\* ------------------------------------------------------------------------
\* The state machine
\* ------------------------------------------------------------------------

Init ==
  /\ method \in Methods
  /\ fexpr \in Exprs
  /\ p1 \in Seeds
  /\ p2 \in (IF method \in TwoSeed THEN Seeds
             ELSE IF method = "modified_secant" THEN Deltas ELSE {None})
  /\ tol \in Tols
  /\ max_iter \in 0..MaxIterBound
  /\ lib = Locals
  /\ web = Locals

LibRunning == lib.pc \in {"call", "loop"}
WebRunning == web.pc \in {"call", "loop"}
Inputs == <<method, fexpr, p1, p2, tol, max_iter>>

Bisection ==
  /\ method = "bisection" /\ LibRunning
  /\ lib' = bisection(lib)
  /\ UNCHANGED <<Inputs, web>>

RegulaFalsi ==
  /\ method = "regula_falsi" /\ LibRunning
  /\ lib' = regula_falsi(lib)
  /\ UNCHANGED <<Inputs, web>>

Secant ==
  /\ method = "secant" /\ LibRunning
  /\ lib' = secant(lib)
  /\ UNCHANGED <<Inputs, web>>

NewtonRaphson ==
  /\ method = "newton_raphson" /\ LibRunning
  /\ lib' = newton_raphson(lib)
  /\ UNCHANGED <<Inputs, web>>

FixedPointIteration ==
  /\ method = "fixed_point_iteration" /\ LibRunning
  /\ lib' = fixed_point_iteration(lib)
  /\ UNCHANGED <<Inputs, web>>

ModifiedSecant ==
  /\ method = "modified_secant" /\ LibRunning
  /\ lib' = modified_secant(lib)
  /\ UNCHANGED <<Inputs, web>>

\* One step of run_method(method, fexpr, params) on the same inputs.
run_method(s) ==
  CASE method = "bisection" -> web_bisection(s)
    [] method = "regula_falsi" -> web_regula(s)
    [] method = "secant" -> web_secant(s)
    [] method = "newton_raphson" -> web_newton(s)
    [] method = "fixed_point_iteration" -> web_fixed(s)
    [] method = "modified_secant" -> web_modified(s)

RunMethod ==
  /\ WebRunning
  /\ web' = run_method(web)
  /\ UNCHANGED <<Inputs, lib>>

Next ==
  \/ Bisection
  \/ RegulaFalsi
  \/ Secant
  \/ NewtonRaphson
  \/ FixedPointIteration
  \/ ModifiedSecant
  \/ RunMethod

Spec == Init /\ [][Next]_vars

\* ------------------------------------------------------------------------
\* Properties
\* ------------------------------------------------------------------------

Last(seq) == seq[Len(seq)]
FLe(x, y) == FLt(x, y) \/ FEq(x, y)
Bracketing == method \in {"bisection", "regula_falsi"}

\* A record meets the stopping criterion of the method that made it.
Meets(r) ==
  IF method = "fixed_point_iteration" THEN FLt(r.err, tol)
  ELSE FLt(FAbs(r.fx), tol) \/ FLt(r.err, tol)

NoRecordMeets(rows) == \A k \in 1..Len(rows) : ~Meets(rows[k])

\* C1: a call that returns does so at the first pass whose record meets the
\* method's stopping criterion: a running loop holds no record that meets it,
\* a returned trace has one record per reported iteration, none before the last
\* meets the criterion, and the last one does when iterations < max_iter.
C1_ReturnsAtFirstMeetingPass ==
  /\ lib.pc = "loop" => NoRecordMeets(lib.rows)
  /\ (lib.pc = "returned" /\ max_iter >= 1) =>
       /\ lib.it = Len(lib.rows)
       /\ NoRecordMeets(SubSeq(lib.rows, 1, Len(lib.rows) - 1))
       /\ lib.it < max_iter => Meets(Last(lib.rows))

\* C1 witness: a call stopped by the residual alone, before the cap, at pass 2.
C1_Witness ==
  /\ lib.pc = "returned" /\ lib.it = 2 /\ lib.it < max_iter
  /\ ~FLt(lib.err, tol)
  /\ Meets(Last(lib.rows))

\* What C2 says of a call in which no pass met the criterion.
CapOutcome ==
  /\ lib.it = max_iter
  /\ Len(lib.rows) = max_iter
  /\ \A k \in 1..Len(lib.rows) : lib.rows[k].i = k
  /\ lib.root = Last(lib.rows).x
  /\ lib.err = Last(lib.rows).err

Divergent == method = "fixed_point_iteration" /\ fexpr = "2*x" /\ p1 = One

\* C2 as stated: with no pass meeting the criterion and max_iter >= 1 the call
\* returns (it does not raise at the return statement) with iterations ==
\* max_iter, max_iter records indexed 1..max_iter and the last record's iterate
\* and error; and g(x) = 2x from x0 = 1 records an error that grows at every pass.
C2_Original ==
  /\ (lib.pc = "raised" /\ max_iter >= 1) => lib.exc # "UnboundLocalError"
  /\ (lib.pc = "returned" /\ max_iter >= 1 /\ NoRecordMeets(lib.rows)) => CapOutcome
  /\ (Divergent /\ lib.pc = "returned" /\ NoRecordMeets(lib.rows)) =>
       \A k \in 1..(Len(lib.rows) - 1) : FGt(lib.rows[k + 1].err, lib.rows[k].err)

\* C2 amended: as C2, but the error of g(x) = 2x grows at every pass that starts
\* from a finite iterate (once the iterate has overflowed to infinity the
\* recorded error is NaN).
C2_CapExhaustion ==
  /\ (lib.pc = "raised" /\ max_iter >= 1) => lib.exc # "UnboundLocalError"
  /\ (lib.pc = "returned" /\ max_iter >= 1 /\ NoRecordMeets(lib.rows)) => CapOutcome
  /\ (Divergent /\ lib.pc = "returned" /\ NoRecordMeets(lib.rows)) =>
       \A k \in 1..(Len(lib.rows) - 1) :
         IsFinite(lib.rows[k].x) => FGt(lib.rows[k + 1].err, lib.rows[k].err)

\* C2 witness: the divergent fixed-point call ran into the cap after 3 passes.
C2_Witness ==
  /\ Divergent /\ lib.pc = "returned" /\ NoRecordMeets(lib.rows)
  /\ max_iter = 3 /\ lib.it = 3
  /\ FGt(lib.rows[3].err, lib.rows[2].err)

\* C3 as stated: a returned result has iterations == max_iter and a final error
\* not below tol exactly when no pass met the stopping criterion.
C3_Original ==
  lib.pc = "returned" =>
    ((lib.it = max_iter /\ ~FLt(lib.err, tol)) <=> NoRecordMeets(lib.rows))

\* For the methods that consult it, the residual of a record is below tol.
ResidualBelow(r) == method # "fixed_point_iteration" /\ FLt(FAbs(r.fx), tol)

\* C3 amended: a returned result has iterations == max_iter, a final error not
\* below tol and a last record whose residual is not below tol exactly when no
\* pass met the stopping criterion.
C3_Distinguishable ==
  lib.pc = "returned" =>
    ((lib.it = max_iter /\ ~FLt(lib.err, tol) /\ ~ResidualBelow(Last(lib.rows)))
       <=> NoRecordMeets(lib.rows))

\* C3 witness: a call converged at the last allowed pass by its residual alone.
C3_Witness ==
  /\ lib.pc = "returned" /\ lib.it = max_iter /\ max_iter >= 2
  /\ ~FLt(lib.err, tol)
  /\ ResidualBelow(Last(lib.rows))

\* C4: for bisection and regula_falsi with tol > 0 and max_iter >= 1, a product
\* f(a)*f(b) > 0 raises the invalid-bracket error before any record, and a
\* product <= 0 is accepted and the call never raises.
C4_BracketCheckDecides ==
  (Bracketing /\ FGt(tol, Zero) /\ max_iter >= 1 /\ lib.pc # "call") =>
    /\ FGt(FMul(f(fexpr, p1), f(fexpr, p2)), Zero) =>
         (lib.pc = "raised" /\ lib.exc = "ValueError" /\ lib.rows = <<>>)
    /\ FLe(FMul(f(fexpr, p1), f(fexpr, p2)), Zero) => lib.pc # "raised"

\* C5 as stated (its clause on equal seeds): every secant call with x0 == x1
\* raises the zero-denominator error on the first pass, with no record and no
\* result.
C5_Original ==
  (method = "secant" /\ FEq(p1, p2) /\ max_iter >= 1 /\ lib.pc # "call") =>
    \/ lib.pc = "loop" /\ lib.i = 0
    \/ lib.pc = "raised" /\ lib.exc = "ZeroDenominator" /\ lib.rows = <<>>

\* C5 amended: a secant pass raises the zero-denominator error exactly when
\* f(x1) - f(x0) == 0 for the pair current at that pass, and then appends no
\* record and returns no result; a first pass with x0 == x1 and a finite f(x0)
\* raises it.
C5_ZeroDenominator ==
  [][(method = "secant" /\ lib.pc = "loop" /\ lib.i < max_iter /\ lib' # lib) =>
       /\ (lib'.pc = "raised" /\ lib'.exc = "ZeroDenominator")
            <=> FEq(FSub(f(fexpr, lib.x1), f(fexpr, lib.x0)), Zero)
       /\ lib'.pc = "raised" =>
            (lib'.exc = "ZeroDenominator" /\ lib'.rows = lib.rows
               /\ lib'.it = Unbound /\ lib'.root = Unbound)
       /\ (lib.i = 0 /\ FEq(lib.x0, lib.x1) /\ IsFinite(f(fexpr, lib.x0))) =>
            lib'.pc = "raised"]_vars

\* C5 witness: the zero-denominator error raised on a later pass, after the
\* records of the passes before it.
C5_Witness ==
  /\ method = "secant" /\ lib.pc = "raised" /\ lib.exc = "ZeroDenominator"
  /\ lib.i >= 1 /\ Len(lib.rows) = lib.i
  /\ lib.it = Unbound

\* max(1, ceil(log2(w/t))) for widths w >= 0 and tolerances t > 0, in units.
CeilLog2Bound(w, t) ==
  CHOOSE n \in 1..(Prec + MaxShift + 2) :
    /\ t * Pow2(n) >= w
    /\ \A m \in 1..(n - 1) : t * Pow2(m) < w

\* max(1, floor(log2(w/t)) + 1).
FloorLog2Bound(w, t) ==
  CHOOSE n \in 1..(Prec + MaxShift + 3) :
    /\ t * Pow2(n) > w
    /\ \A m \in 1..(n - 1) : t * Pow2(m) <= w

FiniteBisection ==
  /\ method = "bisection" /\ lib.pc = "returned"
  /\ IsFinite(p1) /\ IsFinite(p2) /\ tol > 0 /\ IsFinite(tol)

\* C6 as stated: bisection reports iterations <= max(1, ceil(log2(|b-a|/tol)))
\* and iterations <= max_iter.
C6_Original ==
  FiniteBisection =>
    /\ lib.it <= CeilLog2Bound(Mag(p2 - p1), tol)
    /\ lib.it <= max_iter

\* Every recorded error is the exact halving |b-a|/2^i of the original width.
ExactErrors ==
  \A k \in 1..Len(lib.rows) :
    IsFinite(lib.rows[k].err) /\ lib.rows[k].err * Pow2(k) = Mag(p2 - p1)

\* C6 amended: bisection reports iterations <= max_iter, and, when the recorded
\* errors are the exact halvings |b-a|/2^i (no rounding),
\* iterations <= max(1, floor(log2(|b-a|/tol)) + 1).
C6_IterationBound ==
  FiniteBisection =>
    /\ lib.it <= max_iter
    /\ ExactErrors => lib.it <= FloorLog2Bound(Mag(p2 - p1), tol)

\* C6 witness: a bisection that needed one pass more than ceil(log2(|b-a|/tol)),
\* with exact errors, stopped by the error estimate.
C6_Witness ==
  /\ FiniteBisection /\ ExactErrors
  /\ lib.it = CeilLog2Bound(Mag(p2 - p1), tol) + 1
  /\ lib.it = FloorLog2Bound(Mag(p2 - p1), tol)
  /\ FLt(lib.err, tol)

\* C7: in modified_secant the divisor delta*x is non-zero whenever the forward
\* difference is used, so the derivative step raises nothing but the
\* zero-derivative-approximation error.
C7_NoZeroDivisor ==
  method = "modified_secant" =>
    /\ (lib.pc = "loop" /\ lib.i < max_iter /\ FNe(lib.x, Zero)) =>
         FMul(lib.delta, lib.x) # Zero
    /\ lib.pc = "raised" => lib.exc \in {"ZeroDerivativeApproximation", "UnboundLocalError"}

\* C8 as stated (its closed form): on a finite bracket the recorded error of
\* pass i is |b0 - a0| / 2^i and the current width is |b0 - a0| / 2^i.
C8_Original ==
  (method = "bisection" /\ lib.pc \in {"loop", "returned"}
     /\ IsFinite(p1) /\ IsFinite(p2)) =>
    /\ \A k \in 1..Len(lib.rows) : lib.rows[k].err * Pow2(k) = Mag(p2 - p1)
    /\ lib.pc = "loop" => Mag(lib.b - lib.a) * Pow2(lib.i) = Mag(p2 - p1)

\* No operation of the pass on [a, b] rounds: a+b, (a+b)/2, b-a and (b-a)/2 are
\* floats.
ExactPass(a, b) ==
  /\ IsFinite(a) /\ IsFinite(b)
  /\ Representable(a + b) /\ (a + b) % 2 = 0
  /\ Representable(b - a) /\ (b - a) % 2 = 0

Between(x, a, b) == (a <= x /\ x <= b) \/ (b <= x /\ x <= a)

\* C8 amended: each bisection pass records the computed midpoint of the current
\* bracket and the error |b-a|/2 of the bracket as it is before narrowing, and
\* narrowing replaces one endpoint by the midpoint; at a pass whose arithmetic
\* does not round, the new bracket is nested in the previous one and the
\* recorded error and the new width are exactly half the previous width.
C8_PassRecordsAndHalves ==
  [][(method = "bisection" /\ lib.pc = "loop" /\ lib.i < max_iter /\ lib' # lib) =>
       /\ Len(lib'.rows) = Len(lib.rows) + 1
       /\ Last(lib'.rows).i = lib.i + 1
       /\ Last(lib'.rows).x = FDiv(FAdd(lib.a, lib.b), Two)
       /\ Last(lib'.rows).err = FDiv(FAbs(FSub(lib.b, lib.a)), Two)
       /\ lib'.pc = "loop" =>
            \/ lib'.a = lib.a /\ lib'.b = Last(lib'.rows).x
            \/ lib'.b = lib.b /\ lib'.a = Last(lib'.rows).x
       /\ ExactPass(lib.a, lib.b) =>
            /\ 2 * Last(lib'.rows).err = Mag(lib.b - lib.a)
            /\ lib'.pc = "loop" =>
                 /\ 2 * Mag(lib'.b - lib'.a) = Mag(lib.b - lib.a)
                 /\ Between(lib'.a, lib.a, lib.b)
                 /\ Between(lib'.b, lib.a, lib.b)]_vars

\* C8 witness: two exact passes have halved a bracket of width 4 twice.
C8_Witness ==
  /\ method = "bisection" /\ lib.pc = "loop" /\ lib.i = 2
  /\ Mag(p2 - p1) = Four /\ IsFinite(p1) /\ IsFinite(p2)
  /\ Mag(lib.b - lib.a) = One
  /\ lib.rows[1].err = Two /\ lib.rows[2].err = One

\* C9: in bisection and regula_falsi on an accepted (here finite) bracket the
\* retained endpoints keep fa == f(a), fb == f(b) and fa*fb <= 0 after every
\* narrowing step.
C9_BracketInvariant ==
  (Bracketing /\ lib.pc = "loop" /\ IsFinite(p1) /\ IsFinite(p2)
     /\ FLe(FMul(f(fexpr, p1), f(fexpr, p2)), Zero)) =>
    /\ lib.fa = f(fexpr, lib.a)
    /\ lib.fb = f(fexpr, lib.b)
    /\ FLe(FMul(lib.fa, lib.fb), Zero)

\* C10: run_method reports an error exactly when the library function raises,
\* and otherwise its rows are the library's trace and its root the library's
\* final estimate (stated here for max_iter >= 1 only; the claim also covers 0).
C10_FrontEndsAgree ==
  (lib.pc \in {"returned", "raised"} /\ web.pc \in {"returned", "error"}
     /\ max_iter >= 1) =>
    /\ web.pc = "error" <=> lib.pc = "raised"
    /\ lib.pc = "returned" => (web.rows = lib.rows /\ web.root = lib.root)

====
